---------------------------- MODULE Spec2Model ----------------------------
(***************************************************************************)
(* Model of stat-server (src/main.cpp): the record parser of MainHandler,  *)
(* the per-event histogram of EventStatistic, and the Statistic registry   *)
(* shared by the dispatcher thread, the detached TCP worker threads and    *)
(* the SIGUSR1/SIGUSR2 handlers.                                           *)
(*                                                                         *)
(* Four specifications share the variables:                                *)
(*   SpecParser  one MainHandler run over one byte stream, read in chunks  *)
(*   SpecStat    one EventStatistic object under AddData / Calc / report   *)
(*   SpecConc    the registry under concurrent threads and dump signals    *)
(*   SpecServer  main: the file drain, the poll loop, its handlers, the    *)
(*               TCP workers, the signals (SpecServerFair: main is         *)
(*               scheduled)                                                *)
(***************************************************************************)
EXTENDS Integers, Sequences, FiniteSets, TLC

VARIABLES
    \* ---- MainHandler (one run) ----
    stream,      \* the bytes the descriptor will deliver, in order
    pos,         \* how many of them read() has returned so far
    parser,      \* MainHandler's locals: section, event, avgtsmr, tab_counter
    emitted,     \* the (event, delay) pairs passed to stat.AddEventData, in order
    status,      \* "running" | "returned" (read() gave 0) | the exception that escaped
    splitInDelay,\* history: a read() ended inside a delay field with digits buffered
    \* ---- one EventStatistic ----
    es,          \* the object's fields
    added,       \* history: the delays passed to AddData, in order
    lastOp,      \* history: the last member function called
    report,      \* the values GetReport formatted last
    sinceReport, \* history: what was called between the last two GetReport calls
    fullReport,  \* what GetFullReport returned, while it is the last call made
    \* ---- Statistic registry and its callers ----
    events,      \* Statistic::_events
    mutex,       \* Statistic::_mutex: [owner, depth]
    pc,          \* per thread: where it is inside AddEventData / GetEventStatistic
    arg,         \* per thread: the (event, delay) arguments of the call in progress
    tmp,         \* per thread: the bucket value loaded by _histogram[delay]++
    calls,       \* history: per event, AddEventData calls made
    overlap,     \* history: two threads were inside AddEventData for one event at once
    spawned,     \* the threads that exist (main, and the workers accepted so far)
    queried,     \* history: the names GetEventStatistic has been called for
    reports,     \* history: how many reports (queries and dumps) were produced
    lastQuery,   \* what the last GetEventStatistic returned
    lastDump,    \* what the last GetFullStatistic returned
    \* ---- main(), the MainHandler runs and the outside ----
    dpc,         \* main's position: "drain" | "while" | "poll" | "for" | "fifo" | "udp" | "exit"
    isWorking,   \* the flag SIGINT_Handler clears
    revents,     \* fds[i].revents as the last poll left them
    fdi,         \* the index i of the for loop over fds
    handled,     \* history: the descriptors whose branch ran in this for loop
    polled,      \* history: poll was called at least once
    eintr,       \* a signal handler ran on main while it is blocked in poll
    hp,          \* per thread: the locals of its MainHandler call
    hbuf,        \* per thread: the bytes its last read() left in buf
    file,        \* the chunks read() will still return on the input file
    fileReads,   \* history: the read() calls made on the input file
    fifo,        \* the pipe: bytes in it, its writer, what the writer will write
    conn,        \* per connection: its state, what the peer will still send, its end
    dgrams,      \* datagrams waiting on the UDP socket
    replies,     \* history: datagrams sent back
    dumps,       \* history: full statistics printed by the SIGUSR handlers
    applied,     \* history: per descriptor, the pairs its handler passed to AddEventData
    got,         \* history: per descriptor, the bytes read() returned from it
    failed,      \* history: the descriptors on which read() returned -1
    interleaved, \* history: a worker read while another was inside a record
    what,        \* the text main's catch printed
    down,        \* whether the process runs, or how it ended
    open,        \* the open descriptors
    budget       \* the events the outside may still cause

parserVars == <<stream, pos, parser, emitted, status, splitInDelay>>
statVars == <<es, added, lastOp, report, sinceReport, fullReport>>
concVars ==
    <<events, mutex, pc, arg, tmp, calls, overlap, spawned, queried, reports,
      lastQuery, lastDump>>
srvVars ==
    <<dpc, isWorking, revents, fdi, handled, polled, eintr, hp, hbuf, file,
      fileReads, fifo, conn, dgrams, replies, dumps, applied, got, failed,
      interleaved, what, down, open, budget>>
vars == <<parserVars, statVars, concVars, srvVars>>

-----------------------------------------------------------------------------
(* Bytes. A byte is a one-character string; a byte string is a sequence.    *)

TAB == "\t"
NL == "\n"
Digits == {"0", "1", "2", "3", "4", "5", "6", "7", "8", "9"}

\* isdigit(c) for the ASCII bytes used here
IsDigit(c) == c \in Digits

DigitValue(c) ==
    CASE c = "0" -> 0 [] c = "1" -> 1 [] c = "2" -> 2 [] c = "3" -> 3
      [] c = "4" -> 4 [] c = "5" -> 5 [] c = "6" -> 6 [] c = "7" -> 7
      [] c = "8" -> 8 [] c = "9" -> 9

\* INT_MAX: std::stoi returns int
IntMax == 2147483647

\* strtol taking one more digit d after the value v: -1 once INT_MAX is exceeded
\* (computed without leaving 32 bits)
StoiNext(v, d) == IF v = -1 \/ v > (IntMax - d) \div 10 THEN -1 ELSE v * 10 + d

\* the value of a digit string, or -1 when it exceeds INT_MAX
RECURSIVE StoiValue(_)
StoiValue(s) ==
    IF s = <<>> THEN 0
    ELSE StoiNext(StoiValue(SubSeq(s, 1, Len(s) - 1)), DigitValue(s[Len(s)]))

StoiResult(v) ==
    IF v = -1 THEN [exc |-> "out_of_range", value |-> 0]
    ELSE [exc |-> "none", value |-> v]

\* std::stoi(avgtsmr) on a string of digits: the value, or the exception thrown
\* (invalid_argument when there is no digit, out_of_range above INT_MAX)
Stoi(s) ==
    IF s = <<>> THEN [exc |-> "invalid_argument", value |-> 0]
    ELSE StoiResult(StoiValue(s))

-----------------------------------------------------------------------------
(* MainHandler: the byte loop.                                              *)

\* the tab count at which section 3 hands over to section 4
FieldTabs == 14

\* MainHandler's locals on entry
ParserInit == [section |-> 0, event |-> <<>>, avgtsmr |-> <<>>, tab_counter |-> 0]

\* (variant: a byte that is not a tab leaves the parser waiting for the tab)
RejectSeparatorWait(p) == p

\* section 1 seeing a byte that is not a tab
RejectSeparator(p) == [p EXCEPT !.section = 0]

\* (variant: the delay buffer is not cleared on entering section 4)
EnterDelayKeep(p) == [p EXCEPT !.section = 4]

\* section 3 -> section 4
EnterDelay(p) == [p EXCEPT !.section = 4, !.avgtsmr = <<>>]

\* delay = stoi(avgtsmr); stat.AddEventData(event, delay); section = 0;
\* with r the outcome of stoi: a throw leaves the loop with the locals as they are
Emit(s, r) ==
    IF r.exc # "none" THEN [s EXCEPT !.exc = r.exc]
    ELSE [s EXCEPT !.p.section = 0,
                   !.out = Append(@, [event |-> s.p.event, delay |-> r.value])]

\* section 3: if (buf[i] == '\t') tab_counter++;
CountTab(p, c) == IF c = TAB THEN [p EXCEPT !.tab_counter = @ + 1] ELSE p

\* section 3: if (tab_counter == 14) { section++; avgtsmr = ""; }
TestCount(p) == IF p.tab_counter = FieldTabs THEN EnterDelay(p) ELSE p

\* One iteration of the inner for loop on byte c. s holds the locals (p), the
\* pairs passed to AddEventData so far (out) and the exception thrown (exc).
Step(s, c) ==
    CASE s.p.section = 0 ->
            IF c = "]" THEN [s EXCEPT !.p.section = 1] ELSE s
      [] s.p.section = 1 ->
            IF c = TAB THEN [s EXCEPT !.p.section = 2, !.p.event = <<>>]
            ELSE [s EXCEPT !.p = RejectSeparator(@)]
      [] s.p.section = 2 ->
            IF c = TAB THEN [s EXCEPT !.p.tab_counter = 1, !.p.section = 3]
            ELSE [s EXCEPT !.p.event = Append(@, c)]
      [] s.p.section = 3 ->
            [s EXCEPT !.p = TestCount(CountTab(@, c))]
      [] s.p.section = 4 ->
            IF IsDigit(c) THEN [s EXCEPT !.p.avgtsmr = Append(@, c)]
            ELSE Emit(s, Stoi(s.p.avgtsmr))

\* The iterations i..j of the inner for loop over one buffer; an iteration
\* is not run once a byte's handling has thrown. The range is walked in two
\* halves, m being the state the loop is in after the first half.
RECURSIVE ProcessRange(_, _, _, _)
ProcessRange(s, buf, i, j) ==
    IF i > j THEN s
    ELSE IF i = j THEN (IF s.exc # "none" THEN s ELSE Step(s, buf[i]))
    ELSE CHOOSE r \in {ProcessRange(m, buf, ((i + j) \div 2) + 1, j) :
                           m \in {ProcessRange(s, buf, i, (i + j) \div 2)}} : TRUE

\* The inner for loop over one buffer from index i: it ends with the buffer, or
\* at the byte whose handling throws.
ProcessFrom(s, buf, i) == ProcessRange(s, buf, i, Len(buf))

\* (variant: the locals are declared inside for (EVER), so each read starts afresh)
CarryOverReset(p) == ParserInit

\* The locals a read continues with: they live across the iterations of for (EVER).
CarryOver(p) == p

\* one buffer, from the locals p
ProcessChunk(p, buf) ==
    ProcessFrom([p |-> CarryOver(p), out |-> <<>>, exc |-> "none"], buf, 1)


-----------------------------------------------------------------------------
(* Byte streams fed to MainHandler: concatenations of records and of stray  *)
(* bytes.                                                                   *)

\* the filler fields between the event field and the delay field
FillerFields == FieldTabs - 1

\* longest stream, in pieces
MaxPieces == 3

\* largest partial read() tried (a read() may also return all that is left)
MaxChunk == 2

\* max_size: the most one read() returns
MaxRead == 100000

RECURSIVE Flatten(_)
Flatten(ss) == IF ss = <<>> THEN <<>> ELSE Head(ss) \o Flatten(Tail(ss))

\* "]" TAB event TAB filler TAB (x13) digits terminator
RecordBytes(ev, fillers, digits, term) ==
    <<"]", TAB>> \o ev \o <<TAB>>
      \o Flatten([i \in 1..FillerFields |-> fillers[i] \o <<TAB>>])
      \o digits \o <<term>>

EmptyFillers == [i \in 1..FillerFields |-> <<>>]
MixedFillers ==
    [i \in 1..FillerFields |->
        IF i = 1 THEN <<"]">> ELSE IF i = 2 THEN <<"7", "x">> ELSE <<>>]

IntMaxDigits == <<"2", "1", "4", "7", "4", "8", "3", "6", "4", "7">>
IntMaxPlus1Digits == <<"2", "1", "4", "7", "4", "8", "3", "6", "4", "8">>

RecA42 == RecordBytes(<<"a">>, EmptyFillers, <<"0", "4", "2">>, NL)
RecBMax == RecordBytes(<<"b", "]">>, MixedFillers, IntMaxDigits, "]")
RecEmptyDelay == RecordBytes(<<"a">>, EmptyFillers, <<>>, "x")
RecOverflow == RecordBytes(<<"a">>, EmptyFillers, IntMaxPlus1Digits, NL)

Pieces == {RecA42, RecBMax, RecEmptyDelay, RecOverflow, <<"]">>, <<TAB>>}

RECURSIVE StreamsOf(_)
StreamsOf(n) ==
    IF n = 0 THEN {<<>>}
    ELSE LET S == StreamsOf(n - 1) IN S \cup {s \o q : s \in S, q \in Pieces}

Streams == StreamsOf(MaxPieces)

\* the sizes read() may return when `left` bytes are pending
ChunkSizes(left) ==
    {k \in 1..left : k <= MaxRead /\ (k <= MaxChunk \/ k = left)}

-----------------------------------------------------------------------------
(* EventStatistic.                                                          *)

\* microsecondsInSecond: the size of _histogram
MicrosecondsInSecond == 1000000

\* _histogram is kept as the function of its non-zero buckets
Bucket(h, d) == IF d \in DOMAIN h THEN h[d] ELSE 0

\* (variant: the constructor leaves _median as it finds it)
ResetUninitialised ==
    [minimum |-> 0, maximum |-> 0, median |-> 7,
     percentel_122us_90_0 |-> 0, percentel_140us_99_0 |-> 0,
     percentel_145us_99_9 |-> 0,
     total_counter |-> 0, below_122us_counter |-> 0,
     below_140us_counter |-> 0, below_145us_counter |-> 0,
     histogram |-> <<>>]

\* EventStatistic::Reset
Reset ==
    [minimum |-> 0, maximum |-> 0, median |-> 0,
     percentel_122us_90_0 |-> 0, percentel_140us_99_0 |-> 0,
     percentel_145us_99_9 |-> 0,
     total_counter |-> 0, below_122us_counter |-> 0,
     below_140us_counter |-> 0, below_145us_counter |-> 0,
     histogram |-> <<>>]

\* (variant: the delay is used as passed in)
ReduceNone(delay) == delay

\* delay %= microsecondsInSecond
Reduce(delay) == delay % MicrosecondsInSecond

\* _histogram[delay] = v
StoreBucket(e, d, v) ==
    LET h == e.histogram IN
    [e EXCEPT !.histogram = [x \in DOMAIN h \cup {d} |-> IF x = d THEN v ELSE h[x]]]

\* _histogram[delay]++
IncBucket(e, d) == StoreBucket(e, d, Bucket(e.histogram, d) + 1)

\* _total_counter++
IncTotal(e) == [e EXCEPT !.total_counter = @ + 1]

\* (variant: the minimum is compared without the sentinel test)
UpdateMinNoSentinel(e, d) == IF d < e.minimum THEN [e EXCEPT !.minimum = d] ELSE e

\* if (delay < _minimum || _minimum == 0) _minimum = delay;
UpdateMin(e, d) ==
    IF d < e.minimum \/ e.minimum = 0 THEN [e EXCEPT !.minimum = d] ELSE e

\* if (delay > _maximum) _maximum = delay;
UpdateMax(e, d) == IF d > e.maximum THEN [e EXCEPT !.maximum = d] ELSE e

\* (variant: the second test repeats the first threshold)
UpdateBelowCopyPaste(e, d) ==
    [e EXCEPT !.below_122us_counter = IF d < 122 THEN @ + 1 ELSE @,
              !.below_140us_counter = IF d < 122 THEN @ + 1 ELSE @,
              !.below_145us_counter = IF d < 145 THEN @ + 1 ELSE @]

\* the three threshold counters
UpdateBelow(e, d) ==
    [e EXCEPT !.below_122us_counter = IF d < 122 THEN @ + 1 ELSE @,
              !.below_140us_counter = IF d < 140 THEN @ + 1 ELSE @,
              !.below_145us_counter = IF d < 145 THEN @ + 1 ELSE @]

\* what AddData does after the two increments
UpdateAggregates(e, d) == UpdateBelow(UpdateMax(UpdateMin(e, d), d), d)

\* (float) n / D < num/den, as the hardware evaluates it: 0/0 is NaN and n/0 is
\* infinite, and neither is below the threshold
FractionBelow(n, D, num, den) == D # 0 /\ n * den < num * D

\* if (local_median_counter / _total_counter < 50.0) { ... }
CalcMedian(s, delay, count) ==
    IF FractionBelow(s.local_median, s.e.total_counter, 50, 1)
    THEN [s EXCEPT !.e.median = delay, !.local_median = @ + count]
    ELSE s

\* if (delay < 122) if (local_122us_counter / _below_122us_counter < 90.0) { ... }
Calc122(s, delay, count) ==
    IF delay < 122 /\ FractionBelow(s.local_122us, s.e.below_122us_counter, 90, 1)
    THEN [s EXCEPT !.e.percentel_122us_90_0 = delay, !.local_122us = @ + count]
    ELSE s

\* if (delay < 140) if (local_140us_counter / _below_140us_counter < 99.0) { ... }
Calc140(s, delay, count) ==
    IF delay < 140 /\ FractionBelow(s.local_140us, s.e.below_140us_counter, 99, 1)
    THEN [s EXCEPT !.e.percentel_140us_99_0 = delay, !.local_140us = @ + count]
    ELSE s

\* if (delay < 145) if (local_145us_counter / _below_145us_counter < 99.9) { ... }
Calc145(s, delay, count) ==
    IF delay < 145 /\ FractionBelow(s.local_145us, s.e.below_145us_counter, 999, 10)
    THEN [s EXCEPT !.e.percentel_145us_99_9 = delay, !.local_145us = @ + count]
    ELSE s

SetMin(S) == CHOOSE x \in S : \A y \in S : x <= y

\* one iteration of the for loop of Calc, on a bucket with a non-zero count
CalcBucket(s, delay, count) ==
    Calc145(Calc140(Calc122(CalcMedian(s, delay, count), delay, count),
                    delay, count),
            delay, count)

\* the for loop of Calc over the buckets still to visit, in ascending order
\* (buckets with count 0 are skipped: continue)
RECURSIVE CalcLoop(_, _)
CalcLoop(s, todo) ==
    IF todo = {} THEN s.e
    ELSE CalcLoop(CalcBucket(s, SetMin(todo), s.e.histogram[SetMin(todo)]),
                  todo \ {SetMin(todo)})

\* EventStatistic::Calc
Calc(e) ==
    CalcLoop([e |-> e, local_median |-> 0, local_122us |-> 0,
              local_140us |-> 0, local_145us |-> 0],
             DOMAIN e.histogram)

\* (variant: the insert recomputes the summary)
AddDataRecompute(e, delay) ==
    Calc(UpdateAggregates(IncTotal(IncBucket(e, Reduce(delay))), Reduce(delay)))

\* EventStatistic::AddData
AddData(e, delay) ==
    LET d == Reduce(delay) IN UpdateAggregates(IncTotal(IncBucket(e, d)), d)

\* EventStatistic::GetReport: the five values it formats
GetReport(e) ==
    [min |-> e.minimum, p50 |-> e.median, p90 |-> e.percentel_122us_90_0,
     p99 |-> e.percentel_140us_99_0, p999 |-> e.percentel_145us_99_9]

\* uint32_t step = 5
Step5 == 5

\* range_min = _minimum - _minimum % step
RangeMin(e) == e.minimum - (e.minimum % Step5)

\* (variant: the maximum rounded up to the next multiple of the step, plus the step)
RangeMaxRoundedUp(e) == e.maximum - (e.maximum % Step5) + Step5 + Step5

\* range_max = _maximum - _maximum % step + step
RangeMax(e) == e.maximum - (e.maximum % Step5) + Step5

\* the values exec_time takes in the outer for loop at which trans_no ends
\* non-zero: the multiples of step from range_min, below range_max, with a
\* non-zero bucket among the step buckets from exec_time on
FullReportBins(e) ==
    {t \in {d - (d % Step5) : d \in {x \in DOMAIN e.histogram : e.histogram[x] # 0}} :
        RangeMin(e) <= t /\ t < RangeMax(e)}

\* the inner for loop: trans_no += _histogram[i] for i in exec_time..exec_time+step-1
RECURSIVE TransNo(_, _, _)
TransNo(h, i, end) ==
    IF i >= end THEN 0 ELSE Bucket(h, i) + TransNo(h, i + 1, end)

\* the row printed for exec_time, with the numerators of weight and percent
FullReportRow(e, t, n, below) ==
    [exec_time |-> t, trans_no |-> n, below |-> below, total |-> e.total_counter]

\* the outer for loop over the values of exec_time still to visit that print a
\* row, in ascending order; below is trans_no_below_exec_time
RECURSIVE FullReportLoop(_, _, _, _)
FullReportLoop(e, todo, below, rows) ==
    IF todo = {} THEN rows
    ELSE FullReportLoop(e, todo \ {SetMin(todo)},
                        below + TransNo(e.histogram, SetMin(todo), SetMin(todo) + Step5),
                        Append(rows,
                               FullReportRow(e, SetMin(todo),
                                             TransNo(e.histogram, SetMin(todo),
                                                     SetMin(todo) + Step5),
                                             below)))

\* EventStatistic::GetFullReport: the rows it prints, and the first and last
\* index of _histogram it reads (first > last: it reads none)
GetFullReport(e) ==
    [rows |-> FullReportLoop(e, FullReportBins(e), 0, <<>>),
     first |-> RangeMin(e), last |-> RangeMax(e) - 1]

\* no GetFullReport output
NoFullReport == [rows |-> <<>>, first |-> 0, last |-> 0 - 1]

-----------------------------------------------------------------------------
(* Statistic: the registry and its recursive mutex.                         *)

\* the event names and raw delays the callers pass
EventNames == {"a", "b"}

\* _events.count(event) == 0 -> insert(make_pair(event, EventStatistic()))
AddEvent(evs, ev) ==
    IF ev \in DOMAIN evs THEN evs
    ELSE [x \in DOMAIN evs \cup {ev} |-> IF x = ev THEN Reset ELSE evs[x]]

\* _events[event]: map::operator[] default-constructs a missing entry
At(evs, ev) == IF ev \in DOMAIN evs THEN evs[ev] ELSE Reset

\* _events[event] = e
Put(evs, ev, e) ==
    [x \in DOMAIN evs \cup {ev} |-> IF x = ev THEN e ELSE evs[x]]

\* the registry after GetEventStatistic(event): AddEvent, then _events[event].Calc()
QueryEvents(evs, ev) == Put(AddEvent(evs, ev), ev, Calc(At(AddEvent(evs, ev), ev)))

\* the registry after GetFullStatistic: every entry recomputed
DumpEvents(evs) == [x \in DOMAIN evs |-> Calc(evs[x])]

\* threads: the dispatcher (main) and the detached TCP workers
Main == 0
MaxWorkers == 1
Workers == 1..MaxWorkers
Threads == {Main} \cup Workers
NoThread == 0 - 1

\* (variant: the lock excludes nobody)
CanLockAlways(t) == TRUE

\* recursive_mutex: free, or already owned by the locking thread
CanLock(t) == mutex = NoThread \/ mutex = t

\* the positions inside AddData at which the bucket is already incremented but
\* the counters that go with it are not all updated
PartialPcs == {"total", "aggregates"}

\* the positions of a thread inside AddEventData
AddDataPcs == {"AddData", "store", "total", "aggregates"}

\* some AddData is partially applied
Partial == \E u \in Threads : pc[u] \in PartialPcs

-----------------------------------------------------------------------------
(* SpecServer: main() from the file drain to its return, the MainHandler   *)
(* runs on the dispatcher and on the TCP worker threads, and what the       *)
(* outside does: FIFO writers, TCP peers, UDP peers and signals. A read()   *)
(* and the for loop over the bytes it returned are one step, and so is one  *)
(* call of the registry (its steps are those of SpecConc).                  *)

\* most events from outside in one run (connections, datagrams, FIFO writer
\* sessions and signals together)
MaxEvents == 2

\* the descriptors, numbered in the order main opens them
FileFd == 3
FifoFd == 4
TcpFd == 5
UdpFd == 6
NoFd == 0 - 1

\* the connections accepted, and the worker thread and descriptor of each
Conns == 1..MaxEvents
ConnFd(c) == UdpFd + c
ConnFds == {ConnFd(c) : c \in Conns}
SrvThreads == {Main} \cup Conns

\* the descriptors MainHandler is called on
InputFds == {FileFd, FifoFd} \cup ConnFds

\* struct pollfd fds[nfds], in order
PollFds == <<FifoFd, TcpFd, UdpFd>>
Nfds == 3

\* the text e.what() gives for the exceptions main catches
WhatStoi == "stoi"
WhatPoll == "bind() failed: Interrupted system call"

\* the process is running; and how it can have ended, with the descriptor whose
\* handling ended it
Up == [how |-> "up", fd |-> NoFd]
Ended(how, fd) == [how |-> how, fd |-> fd]

\* a record in two pieces, the cut inside the delay field
RecB7 == RecordBytes(<<"b">>, EmptyFillers, <<"7", "7">>, NL)
FirstPart(rec) == SubSeq(rec, 1, Len(rec) - 2)
LastPart(rec) == SubSeq(rec, Len(rec) - 1, Len(rec))

\* what the input file holds, as the chunks read() returns
FileScripts == {<<>>, <<FirstPart(RecA42), LastPart(RecA42)>>, <<RecEmptyDelay>>}

\* what one FIFO writer writes between its open and its close
FifoWrites == {RecA42, FirstPart(RecA42), LastPart(RecA42)}

\* what one TCP peer sends, as the chunks read() returns, and how its stream ends
\* (read() returning 0, or -1)
ConnScripts ==
    {[input |-> <<FirstPart(RecA42), LastPart(RecA42)>>, end |-> "eof"],
     [input |-> <<FirstPart(RecB7), LastPart(RecB7)>>, end |-> "eof"],
     [input |-> <<RecA42>>, end |-> "error"],
     [input |-> <<RecEmptyDelay>>, end |-> "eof"]}

NoConn == [state |-> "none", input |-> <<>>, end |-> "eof"]

\* the bytes that follow the stale ones in memory when the loop runs past what
\* was read: nothing parsable before the fault, or a byte that is not a digit
GarbageTails == {<<>>, <<"x">>}

\* (variant: main enters the poll loop without the call of line 494)
AfterConstructionLoop == "while"

\* main's position once the four sources are constructed: MainHandler(inputFile)
AfterConstruction == "drain"

\* (variant: the loop condition is constant)
KeepsWorkingAlways == TRUE

\* while (isWorking)
KeepsWorking == isWorking

\* (variant: the locals are static, one copy for all threads)
LocalsStatic(t) == Main

\* whose copy of section, event, avgtsmr and tab_counter thread t uses: its own,
\* they are automatic variables of MainHandler
LocalsOf(t) == t

\* the descriptor the MainHandler call running on thread t reads, if any
Fd(t) ==
    IF t = Main
    THEN IF dpc = "drain" THEN FileFd ELSE IF dpc = "fifo" THEN FifoFd ELSE NoFd
    ELSE IF conn[t].state = "accepted" THEN ConnFd(t) ELSE NoFd

Bytes(b) == [kind |-> "bytes", bytes |-> b]
Eof == [kind |-> "eof", bytes |-> <<>>]
Error == [kind |-> "error", bytes |-> <<>>]

\* what read(descriptor, buf, max_size) returns now: the regular file gives its
\* next chunk and then 0; the non-blocking FIFO gives all that is in the pipe, -1
\* (EAGAIN) when it is empty and a writer has it open, 0 when no writer has; the
\* blocking socket gives what the peer sent next, and then 0 or -1
ReadResult(t) ==
    CASE Fd(t) = FileFd -> IF file # <<>> THEN Bytes(Head(file)) ELSE Eof
      [] Fd(t) = FifoFd ->
            IF fifo.data # <<>> THEN Bytes(fifo.data)
            ELSE IF fifo.writer = "open" THEN Error ELSE Eof
      [] OTHER ->
            IF conn[t].input # <<>> THEN Bytes(Head(conn[t].input))
            ELSE IF conn[t].end = "eof" THEN Eof ELSE Error

\* the sources after read() returned bytes to thread t
FileAfterRead(t) == IF Fd(t) = FileFd THEN Tail(file) ELSE file
FifoAfterRead(t) == IF Fd(t) = FifoFd THEN [fifo EXCEPT !.data = <<>>] ELSE fifo
ConnAfterRead(t) ==
    IF Fd(t) \in ConnFds THEN [conn EXCEPT ![t].input = Tail(@)] ELSE conn

\* an exception leaving MainHandler on thread t: main's catch prints e.what() and
\* main returns, the destructors having closed the descriptors; a worker thread
\* has no handler, std::terminate ends the process
Thrown(t, fd) == IF t = Main THEN Ended("catch", fd) ELSE Ended("terminate", fd)

\* the threads a signal sent to the process can be delivered to
LiveThreads == {Main} \cup {c \in Conns : conn[c].state = "accepted"}

\* poll's revents for each descriptor
Revents(fd) ==
    CASE fd = FifoFd ->
            IF fifo.data # <<>>
            THEN IF fifo.writer = "open" THEN "POLLIN" ELSE "POLLIN|POLLHUP"
            ELSE IF fifo.writer = "closed" THEN "POLLHUP" ELSE "0"
      [] fd = TcpFd -> IF \E c \in Conns : conn[c].state = "queued" THEN "POLLIN" ELSE "0"
      [] fd = UdpFd -> IF dgrams > 0 THEN "POLLIN" ELSE "0"

NoRevents == [fd \in {FifoFd, TcpFd, UdpFd} |-> "0"]

\* fds[i].fd for the loop index i = 0, 1, 2
CurFd == PollFds[fdi + 1]

ServerStart(f) ==
    /\ dpc = AfterConstruction
    /\ isWorking = TRUE
    /\ revents = NoRevents
    /\ fdi = 0
    /\ handled = {}
    /\ polled = FALSE
    /\ eintr = FALSE
    /\ hp = [t \in SrvThreads |-> ParserInit]
    /\ hbuf = [t \in SrvThreads |-> <<>>]
    /\ file = f
    /\ fileReads = 0
    /\ fifo = [data |-> <<>>, writer |-> "never", pending |-> <<>>]
    /\ conn = [c \in Conns |-> NoConn]
    /\ dgrams = 0
    /\ replies = 0
    /\ dumps = 0
    /\ applied = [fd \in InputFds |-> <<>>]
    /\ got = [fd \in InputFds |-> <<>>]
    /\ failed = {}
    /\ interleaved = FALSE
    /\ what = ""
    /\ down = Up
    /\ open = {FileFd, FifoFd, TcpFd, UdpFd}
    /\ budget = MaxEvents

-----------------------------------------------------------------------------
(* Initial values of the groups of variables.                               *)

NoQuery == [event |-> "", report |-> GetReport(Reset), fresh |-> FALSE, partial |-> FALSE]
NoDump == [names |-> {}, queriedBefore |-> {}, partial |-> FALSE]

ParserStart(s) ==
    /\ stream = s
    /\ pos = 0
    /\ parser = ParserInit
    /\ emitted = <<>>
    /\ status = "running"
    /\ splitInDelay = FALSE

StatStart ==
    /\ es = Reset
    /\ added = <<>>
    /\ lastOp = "Reset"
    /\ report = GetReport(Reset)
    /\ sinceReport = "nothing"
    /\ fullReport = NoFullReport

ConcStart ==
    /\ events = <<>>
    /\ mutex = NoThread
    /\ pc = [t \in Threads |-> "idle"]
    /\ arg = [t \in Threads |-> [event |-> "", delay |-> 0]]
    /\ tmp = [t \in Threads |-> 0]
    /\ calls = [e \in EventNames |-> 0]
    /\ overlap = FALSE
    /\ spawned = {Main}
    /\ queried = {}
    /\ reports = 0
    /\ lastQuery = NoQuery
    /\ lastDump = NoDump

-----------------------------------------------------------------------------
(* SpecParser: one run of MainHandler on a descriptor delivering `stream`.  *)

\* cur_size = read(...) returning k > 0 bytes, and the for loop over them
Read(k) ==
    /\ status = "running"
    /\ k \in ChunkSizes(Len(stream) - pos)
    /\ \E r \in {ProcessChunk(parser, SubSeq(stream, pos + 1, pos + k))} :
        /\ parser' = r.p
        /\ emitted' = emitted \o r.out
        /\ status' = IF r.exc = "none" THEN "running" ELSE r.exc
        /\ splitInDelay' =
              (splitInDelay \/ (/\ r.exc = "none"
                                /\ r.p.section = 4
                                /\ r.p.avgtsmr # <<>>
                                /\ pos + k < Len(stream)))
    /\ pos' = pos + k
    /\ UNCHANGED <<stream, statVars, concVars, srvVars>>

\* read(...) returning 0 at end of input: break
ReadEnd ==
    /\ status = "running"
    /\ pos = Len(stream)
    /\ status' = "returned"
    /\ UNCHANGED <<stream, pos, parser, emitted, splitInDelay, statVars, concVars, srvVars>>

InitParser ==
    (\E s \in Streams : ParserStart(s)) /\ StatStart /\ ConcStart /\ ServerStart(<<>>)

NextParser == (\E k \in ChunkSizes(Len(stream) - pos) : Read(k)) \/ ReadEnd

SpecParser == InitParser /\ [][NextParser]_vars

-----------------------------------------------------------------------------
(* SpecStat: one EventStatistic object and the calls made on it.            *)

\* most AddData calls on the object
MaxSamples == 3

\* the raw delays passed in
DelayInputs == {0, 10, 50, 130, 300, 999999, 1000042}

\* what has been called since the report before the last one, once f is called:
\* "Calc" if Calc was, else "AddData" if AddData was, else "nothing"
Since(f) ==
    IF lastOp = "GetReport" THEN f
    ELSE IF sinceReport = "Calc" \/ f = "Calc" THEN "Calc"
    ELSE IF sinceReport = "AddData" \/ f = "AddData" THEN "AddData"
    ELSE "nothing"

StatAddData(d) ==
    /\ Len(added) < MaxSamples
    /\ es' = AddData(es, d)
    /\ added' = Append(added, d)
    /\ lastOp' = "AddData"
    /\ sinceReport' = Since("AddData")
    /\ fullReport' = NoFullReport
    /\ UNCHANGED <<report, parserVars, concVars, srvVars>>

StatCalc ==
    /\ es' = Calc(es)
    /\ lastOp' = "Calc"
    /\ sinceReport' = Since("Calc")
    /\ fullReport' = NoFullReport
    /\ UNCHANGED <<added, report, parserVars, concVars, srvVars>>

StatGetReport ==
    /\ report' = GetReport(es)
    /\ lastOp' = "GetReport"
    /\ sinceReport' = Since("nothing")
    /\ fullReport' = NoFullReport
    /\ UNCHANGED <<es, added, parserVars, concVars, srvVars>>

StatGetFullReport ==
    /\ fullReport' = GetFullReport(es)
    /\ lastOp' = "GetFullReport"
    /\ sinceReport' = Since("nothing")
    /\ UNCHANGED <<es, added, report, parserVars, concVars, srvVars>>

InitStat == ParserStart(<<>>) /\ StatStart /\ ConcStart /\ ServerStart(<<>>)

NextStat ==
    \/ \E d \in DelayInputs : StatAddData(d)
    \/ StatCalc
    \/ StatGetReport
    \/ StatGetFullReport

SpecStat == InitStat /\ [][NextStat]_vars

-----------------------------------------------------------------------------
(* SpecConc: the registry under the dispatcher thread, the TCP worker       *)
(* threads and the dump signals.                                            *)

\* most AddEventData calls, all threads together
MaxCalls == 2

\* most reports (UDP queries and signal dumps together)
MaxReports == 2

\* the raw delays the ingestion paths record
ConcDelays == {10, 130}

RECURSIVE SumOver(_, _)
SumOver(f, S) ==
    IF S = {} THEN 0
    ELSE LET x == CHOOSE y \in S : TRUE IN f[x] + SumOver(f, S \ {x})

\* AddEventData calls made so far: for event e, and in all
CallsFor(e) == calls[e]
CallsMade == SumOver(calls, EventNames)

NoArg == [event |-> "", delay |-> 0]

\* main, poll loop: tcpServer.AcceptNewConnection(); thread(TCPHandler, ...).detach()
Accept ==
    /\ pc[Main] = "idle"
    /\ Workers \ spawned # {}
    /\ spawned' = spawned \cup {SetMin(Workers \ spawned)}
    /\ UNCHANGED <<events, mutex, pc, arg, tmp, calls, overlap, queried, reports, lastQuery, lastDump,
                   parserVars, statVars, srvVars>>

\* stat.AddEventData(event, delay), up to the return of AddEvent(event)
CallAddEventData(t, ev, d) ==
    /\ t \in spawned
    /\ pc[t] = "idle"
    /\ CallsMade < MaxCalls
    /\ CanLock(t)
    /\ events' = AddEvent(events, ev)
    /\ arg' = [arg EXCEPT ![t] = [event |-> ev, delay |-> d]]
    /\ calls' = [calls EXCEPT ![ev] = @ + 1]
    /\ overlap' = (overlap \/ \E u \in Threads \ {t} :
                                  pc[u] \in AddDataPcs /\ arg[u].event = ev)
    /\ pc' = [pc EXCEPT ![t] = "AddData"]
    /\ UNCHANGED <<mutex, tmp, spawned, queried, reports, lastQuery, lastDump,
                   parserVars, statVars, srvVars>>

\* lock_guard in AddEventData; AddData: delay %= ...; the load of _histogram[delay]++
LockAndLoad(t) ==
    /\ pc[t] = "AddData"
    /\ CanLock(t)
    /\ mutex' = t
    /\ tmp' = [tmp EXCEPT ![t] =
                  Bucket(At(events, arg[t].event).histogram, Reduce(arg[t].delay))]
    /\ events' = Put(events, arg[t].event, At(events, arg[t].event))
    /\ pc' = [pc EXCEPT ![t] = "store"]
    /\ UNCHANGED <<arg, calls, overlap, spawned, queried, reports, lastQuery, lastDump,
                   parserVars, statVars, srvVars>>

\* the store of _histogram[delay]++
Store(t) ==
    /\ pc[t] = "store"
    /\ events' = Put(events, arg[t].event,
                     StoreBucket(At(events, arg[t].event), Reduce(arg[t].delay),
                                 tmp[t] + 1))
    /\ pc' = [pc EXCEPT ![t] = "total"]
    /\ UNCHANGED <<mutex, arg, tmp, calls, overlap, spawned, queried, reports, lastQuery, lastDump,
                   parserVars, statVars, srvVars>>

\* _total_counter++
Total(t) ==
    /\ pc[t] = "total"
    /\ events' = Put(events, arg[t].event, IncTotal(At(events, arg[t].event)))
    /\ pc' = [pc EXCEPT ![t] = "aggregates"]
    /\ UNCHANGED <<mutex, arg, tmp, calls, overlap, spawned, queried, reports, lastQuery, lastDump,
                   parserVars, statVars, srvVars>>

\* the rest of AddData, and the lock_guard's release on return
Aggregates(t) ==
    /\ pc[t] = "aggregates"
    /\ events' = Put(events, arg[t].event,
                     UpdateAggregates(At(events, arg[t].event), Reduce(arg[t].delay)))
    /\ mutex' = NoThread
    /\ pc' = [pc EXCEPT ![t] = "idle"]
    /\ arg' = [arg EXCEPT ![t] = NoArg]
    /\ tmp' = [tmp EXCEPT ![t] = 0]
    /\ UNCHANGED <<calls, overlap, spawned, queried, reports, lastQuery, lastDump,
                   parserVars, statVars, srvVars>>

\* main, UDPHandler: stat.GetEventStatistic(event), up to the return of AddEvent(event)
CallGetEventStatistic(ev) ==
    /\ pc[Main] = "idle"
    /\ reports < MaxReports
    /\ CanLock(Main)
    /\ events' = AddEvent(events, ev)
    /\ arg' = [arg EXCEPT ![Main] = [event |-> ev, delay |-> 0]]
    /\ pc' = [pc EXCEPT ![Main] = "Calc"]
    /\ UNCHANGED <<mutex, tmp, calls, overlap, spawned, queried, reports, lastQuery, lastDump,
                   parserVars, statVars, srvVars>>

\* GetEventStatistic: lock_guard; Calc(); GetReport(); return
QueryReport ==
    /\ pc[Main] = "Calc"
    /\ CanLock(Main)
    /\ events' = QueryEvents(events, arg[Main].event)
    /\ lastQuery' = [event |-> arg[Main].event,
                     report |-> GetReport(At(events', arg[Main].event)),
                     fresh |-> CallsFor(arg[Main].event) = 0,
                     partial |-> Partial]
    /\ queried' = queried \cup {arg[Main].event}
    /\ reports' = reports + 1
    /\ pc' = [pc EXCEPT ![Main] = "idle"]
    /\ arg' = [arg EXCEPT ![Main] = NoArg]
    /\ UNCHANGED <<mutex, tmp, calls, overlap, spawned, lastDump, parserVars, statVars, srvVars>>

\* SIGUSR1_Handler / SIGUSR2_Handler run on thread t, whatever t is executing:
\* stats.GetFullStatistic() locks the recursive mutex, which t may own already
FullStatistic(t) ==
    /\ t \in spawned
    /\ reports < MaxReports
    /\ reports' = reports + 1
    /\ CanLock(t)
    /\ events' = DumpEvents(events)
    /\ lastDump' = [names |-> DOMAIN events', queriedBefore |-> queried,
                    partial |-> Partial]
    /\ UNCHANGED <<mutex, pc, arg, tmp, calls, overlap, spawned, queried, lastQuery,
                   parserVars, statVars, srvVars>>

InitConc == ParserStart(<<>>) /\ StatStart /\ ConcStart /\ ServerStart(<<>>)

NextConc ==
    \/ Accept
    \/ \E t \in Threads, ev \in EventNames, d \in ConcDelays : CallAddEventData(t, ev, d)
    \/ \E t \in Threads : LockAndLoad(t)
    \/ \E t \in Threads : Store(t)
    \/ \E t \in Threads : Total(t)
    \/ \E t \in Threads : Aggregates(t)
    \/ \E ev \in EventNames : CallGetEventStatistic(ev)
    \/ QueryReport
    \/ \E t \in Threads : FullStatistic(t)

SpecConc == InitConc /\ [][NextConc]_vars

-----------------------------------------------------------------------------
(* SpecServer: the steps of the dispatcher, of the workers and of the       *)
(* outside.                                                                 *)

\* cur_size = read(...) returning bytes on thread t, and the for loop over them
HandlerRead(t) ==
    /\ down = Up
    /\ Fd(t) # NoFd
    /\ ReadResult(t).kind = "bytes"
    /\ \E r \in {ProcessChunk(hp[LocalsOf(t)], ReadResult(t).bytes)} :
        /\ hp' = [hp EXCEPT ![LocalsOf(t)] = r.p]
        /\ applied' = [applied EXCEPT ![Fd(t)] = @ \o r.out]
        /\ down' = IF r.exc = "none" THEN down ELSE Thrown(t, Fd(t))
        /\ what' = IF r.exc # "none" /\ t = Main THEN WhatStoi ELSE what
        /\ dpc' = IF r.exc # "none" /\ t = Main THEN "exit" ELSE dpc
        /\ open' = IF r.exc # "none" /\ t = Main THEN {} ELSE open
    /\ hbuf' = [hbuf EXCEPT ![t] = ReadResult(t).bytes]
    /\ got' = [got EXCEPT ![Fd(t)] = @ \o ReadResult(t).bytes]
    /\ file' = FileAfterRead(t)
    /\ fileReads' = IF Fd(t) = FileFd THEN fileReads + 1 ELSE fileReads
    /\ fifo' = FifoAfterRead(t)
    /\ conn' = ConnAfterRead(t)
    /\ interleaved' =
          (interleaved \/ (t # Main /\ \E u \in Conns \ {t} :
                              conn[u].state = "accepted" /\ hp[LocalsOf(u)].section # 0))
    /\ UNCHANGED <<isWorking, revents, fdi, handled, polled, eintr, dgrams, replies,
                   dumps, failed, budget,
                   parserVars, statVars, concVars>>

\* read(...) returning 0: MainHandler returns. On a worker TCPHandler closes the
\* connection and the thread ends; on main the call was that of line 494 (the
\* poll loop follows) or that of the FIFO branch (the for loop goes on).
HandlerReturn(t) ==
    /\ down = Up
    /\ Fd(t) # NoFd
    /\ ReadResult(t).kind = "eof"
    /\ fileReads' = IF Fd(t) = FileFd THEN fileReads + 1 ELSE fileReads
    /\ dpc' = IF t # Main THEN dpc ELSE IF dpc = "drain" THEN "while" ELSE "for"
    /\ fdi' = IF t = Main /\ dpc = "fifo" THEN fdi + 1 ELSE fdi
    /\ handled' = IF t = Main /\ dpc = "fifo" THEN handled \cup {FifoFd} ELSE handled
    /\ conn' = IF t = Main THEN conn ELSE [conn EXCEPT ![t].state = "closed"]
    /\ open' = IF t = Main THEN open ELSE open \ {ConnFd(t)}
    /\ UNCHANGED <<isWorking, revents, polled, eintr, hp, hbuf, file, fifo, dgrams,
                   replies, dumps, applied, got, failed, interleaved, what, down,
                   budget,
                   parserVars, statVars, concVars>>

\* read(...) returning -1: cur_size is a size_t, so it is not 0 and the for loop
\* runs on from buf[0] over bytes no read put there, the bytes of the read before
\* first, and on past the end of buf: until stoi throws, or until the loop leaves
\* the thread's stack and the process gets SIGSEGV
HandlerFail(t) ==
    /\ down = Up
    /\ Fd(t) # NoFd
    /\ ReadResult(t).kind = "error"
    /\ \E tail \in GarbageTails :
       \E r \in {ProcessChunk(hp[LocalsOf(t)], hbuf[t] \o tail)} :
        /\ hp' = [hp EXCEPT ![LocalsOf(t)] = r.p]
        /\ applied' = [applied EXCEPT ![Fd(t)] = @ \o r.out]
        /\ down' = IF r.exc = "none" THEN Ended("SIGSEGV", Fd(t)) ELSE Thrown(t, Fd(t))
        /\ what' = IF r.exc # "none" /\ t = Main THEN WhatStoi ELSE what
        /\ dpc' = IF r.exc # "none" /\ t = Main THEN "exit" ELSE dpc
        /\ open' = IF r.exc # "none" /\ t = Main THEN {} ELSE open
    /\ failed' = failed \cup {Fd(t)}
    /\ UNCHANGED <<isWorking, revents, fdi, handled, polled, eintr, hbuf, file,
                   fileReads, fifo, conn, dgrams, replies, dumps, got, interleaved,
                   budget,
                   parserVars, statVars, concVars>>

\* while (isWorking): into poll, or out of the loop and out of main
LoopTest ==
    /\ down = Up
    /\ dpc = "while"
    /\ dpc' = IF KeepsWorking THEN "poll" ELSE "exit"
    /\ polled' = (polled \/ KeepsWorking)
    /\ down' = IF KeepsWorking THEN down ELSE Ended("return", NoFd)
    /\ open' = IF KeepsWorking THEN open ELSE {}
    /\ UNCHANGED <<isWorking, revents, fdi, handled, eintr, hp, hbuf, file, fileReads, fifo,
                   conn, dgrams, replies, dumps, applied, got, failed, interleaved,
                   what, budget,
                   parserVars, statVars, concVars>>

\* poll returns 0 after the timeout: continue
PollTimeout ==
    /\ down = Up
    /\ dpc = "poll"
    /\ ~eintr
    /\ \A fd \in DOMAIN NoRevents : Revents(fd) = "0"
    /\ dpc' = "while"
    /\ revents' = NoRevents
    /\ handled' = {}
    /\ UNCHANGED <<isWorking, fdi, polled, eintr, hp, hbuf, file, fileReads, fifo,
                   conn, dgrams, replies, dumps, applied, got, failed, interleaved,
                   what, down, open, budget,
                   parserVars, statVars, concVars>>

\* poll returns the number of descriptors with events: the for loop starts
PollReady ==
    /\ down = Up
    /\ dpc = "poll"
    /\ ~eintr
    /\ \E fd \in DOMAIN NoRevents : Revents(fd) # "0"
    /\ revents' = [fd \in DOMAIN NoRevents |-> Revents(fd)]
    /\ fdi' = 0
    /\ handled' = {}
    /\ dpc' = "for"
    /\ UNCHANGED <<isWorking, polled, eintr, hp, hbuf, file, fileReads, fifo, conn,
                   dgrams, replies, dumps, applied, got, failed, interleaved, what,
                   down, open, budget,
                   parserVars, statVars, concVars>>

\* poll returns -1 (EINTR) because a signal handler ran on main while it was
\* blocked: throw logic_error, caught at the end of main, which returns
PollInterrupted ==
    /\ down = Up
    /\ dpc = "poll"
    /\ eintr
    /\ what' = WhatPoll
    /\ dpc' = "exit"
    /\ down' = Ended("catch", NoFd)
    /\ open' = {}
    /\ UNCHANGED <<isWorking, revents, fdi, handled, polled, eintr, hp, hbuf, file,
                   fileReads, fifo, conn, dgrams, replies, dumps, applied, got,
                   failed, interleaved, budget,
                   parserVars, statVars, concVars>>

\* for loop: if (fds[i].revents != POLLIN) continue
ForSkip ==
    /\ down = Up
    /\ dpc = "for"
    /\ fdi < Nfds
    /\ revents[CurFd] # "POLLIN"
    /\ fdi' = fdi + 1
    /\ UNCHANGED <<dpc, isWorking, revents, handled, polled, eintr, hp, hbuf, file,
                   fileReads, fifo, conn, dgrams, replies, dumps, applied, got,
                   failed, interleaved, what, down, open, budget,
                   parserVars, statVars, concVars>>

\* for loop, FIFO branch: MainHandler(cur_fd, stats) is entered, its locals fresh
ForFifo ==
    /\ down = Up
    /\ dpc = "for"
    /\ fdi < Nfds
    /\ revents[CurFd] = "POLLIN"
    /\ CurFd = FifoFd
    /\ dpc' = "fifo"
    /\ hp' = [hp EXCEPT ![LocalsOf(Main)] = ParserInit]
    /\ UNCHANGED <<isWorking, revents, fdi, handled, polled, eintr, hbuf, file,
                   fileReads, fifo, conn, dgrams, replies, dumps, applied, got,
                   failed, interleaved, what, down, open, budget,
                   parserVars, statVars, concVars>>

\* for loop, UDP branch: UDPHandler is entered and recvfrom takes the datagram
ForUdp ==
    /\ down = Up
    /\ dpc = "for"
    /\ fdi < Nfds
    /\ revents[CurFd] = "POLLIN"
    /\ CurFd = UdpFd
    /\ dgrams' = dgrams - 1
    /\ dpc' = "udp"
    /\ UNCHANGED <<isWorking, revents, fdi, handled, polled, eintr, hp, hbuf, file,
                   fileReads, fifo, conn, replies, dumps, applied, got, failed,
                   interleaved, what, down, open, budget,
                   parserVars, statVars, concVars>>

\* UDPHandler: stat.GetEventStatistic(event) and sendto; back in the for loop
UdpReply ==
    /\ down = Up
    /\ dpc = "udp"
    /\ replies' = replies + 1
    /\ handled' = handled \cup {UdpFd}
    /\ fdi' = fdi + 1
    /\ dpc' = "for"
    /\ UNCHANGED <<isWorking, revents, polled, eintr, hp, hbuf, file, fileReads, fifo,
                   conn, dgrams, dumps, applied, got, failed, interleaved, what,
                   down, open, budget,
                   parserVars, statVars, concVars>>

\* for loop, TCP branch: AcceptNewConnection and thread(TCPHandler, ...).detach():
\* the worker enters MainHandler with fresh locals
ForTcp ==
    /\ down = Up
    /\ dpc = "for"
    /\ fdi < Nfds
    /\ revents[CurFd] = "POLLIN"
    /\ CurFd = TcpFd
    /\ \E c \in {SetMin({x \in Conns : conn[x].state = "queued"})} :
        /\ conn' = [conn EXCEPT ![c].state = "accepted"]
        /\ hp' = [hp EXCEPT ![LocalsOf(c)] = ParserInit]
        /\ open' = open \cup {ConnFd(c)}
    /\ handled' = handled \cup {TcpFd}
    /\ fdi' = fdi + 1
    /\ UNCHANGED <<dpc, isWorking, revents, polled, eintr, hbuf, file, fileReads,
                   fifo, dgrams, replies, dumps, applied, got, failed, interleaved,
                   what, down, budget,
                   parserVars, statVars, concVars>>

\* the for loop is over (i == nfds): back to the loop condition
ForEnd ==
    /\ down = Up
    /\ dpc = "for"
    /\ fdi = Nfds
    /\ dpc' = "while"
    /\ UNCHANGED <<isWorking, revents, fdi, handled, polled, eintr, hp, hbuf, file,
                   fileReads, fifo, conn, dgrams, replies, dumps, applied, got,
                   failed, interleaved, what, down, open, budget,
                   parserVars, statVars, concVars>>

\* SIGINT_Handler on thread t: isWorking = false. A handler that runs on main
\* while main is blocked in poll makes poll return -1 (poll is never restarted).
SigInt(t) ==
    /\ down = Up
    /\ budget > 0
    /\ t \in LiveThreads
    /\ isWorking' = FALSE
    /\ eintr' = (eintr \/ (t = Main /\ dpc = "poll"))
    /\ budget' = budget - 1
    /\ UNCHANGED <<dpc, revents, fdi, handled, polled, hp, hbuf, file, fileReads,
                   fifo, conn, dgrams, replies, dumps, applied, got, failed,
                   interleaved, what, down, open,
                   parserVars, statVars, concVars>>

\* SIGUSR1_Handler / SIGUSR2_Handler on thread t: cout << stats.GetFullStatistic()
SigUsr(t) ==
    /\ down = Up
    /\ budget > 0
    /\ t \in LiveThreads
    /\ dumps' = dumps + 1
    /\ eintr' = (eintr \/ (t = Main /\ dpc = "poll"))
    /\ budget' = budget - 1
    /\ UNCHANGED <<dpc, isWorking, revents, fdi, handled, polled, hp, hbuf, file,
                   fileReads, fifo, conn, dgrams, replies, applied, got,
                   failed, interleaved, what, down, open,
                   parserVars, statVars, concVars>>

\* a peer connects: the connection waits in the listen queue
PeerConnects(s) ==
    /\ down = Up
    /\ budget > 0
    /\ \E c \in {SetMin({x \in Conns : conn[x].state = "none"})} :
        conn' = [conn EXCEPT ![c] = [state |-> "queued", input |-> s.input,
                                     end |-> s.end]]
    /\ budget' = budget - 1
    /\ UNCHANGED <<dpc, isWorking, revents, fdi, handled, polled, eintr, hp, hbuf,
                   file, fileReads, fifo, dgrams, replies, dumps, applied, got,
                   failed, interleaved, what, down, open,
                   parserVars, statVars, concVars>>

\* a peer sends a datagram to the UDP port
PeerAsks ==
    /\ down = Up
    /\ budget > 0
    /\ dgrams' = dgrams + 1
    /\ budget' = budget - 1
    /\ UNCHANGED <<dpc, isWorking, revents, fdi, handled, polled, eintr, hp, hbuf,
                   file, fileReads, fifo, conn, replies, dumps, applied, got,
                   failed, interleaved, what, down, open,
                   parserVars, statVars, concVars>>

\* a process opens the FIFO for writing, with bytes b to write
WriterOpens(b) ==
    /\ down = Up
    /\ budget > 0
    /\ fifo.writer # "open"
    /\ fifo' = [fifo EXCEPT !.writer = "open", !.pending = b]
    /\ budget' = budget - 1
    /\ UNCHANGED <<dpc, isWorking, revents, fdi, handled, polled, eintr, hp, hbuf,
                   file, fileReads, conn, dgrams, replies, dumps, applied, got,
                   failed, interleaved, what, down, open,
                   parserVars, statVars, concVars>>

\* the writer writes its bytes into the pipe
WriterWrites ==
    /\ down = Up
    /\ fifo.writer = "open"
    /\ fifo.pending # <<>>
    /\ fifo' = [fifo EXCEPT !.data = @ \o fifo.pending, !.pending = <<>>]
    /\ UNCHANGED <<dpc, isWorking, revents, fdi, handled, polled, eintr, hp, hbuf,
                   file, fileReads, conn, dgrams, replies, dumps, applied, got,
                   failed, interleaved, what, down, open, budget,
                   parserVars, statVars, concVars>>

\* the writer closes the FIFO
WriterCloses ==
    /\ down = Up
    /\ fifo.writer = "open"
    /\ fifo.pending = <<>>
    /\ fifo' = [fifo EXCEPT !.writer = "closed"]
    /\ UNCHANGED <<dpc, isWorking, revents, fdi, handled, polled, eintr, hp, hbuf,
                   file, fileReads, conn, dgrams, replies, dumps, applied, got,
                   failed, interleaved, what, down, open, budget,
                   parserVars, statVars, concVars>>

InitServer ==
    /\ ParserStart(<<>>) /\ StatStart /\ ConcStart
    /\ \E f \in FileScripts : ServerStart(f)

\* the steps of the dispatcher thread
MainNext ==
    \/ HandlerRead(Main)
    \/ HandlerReturn(Main)
    \/ HandlerFail(Main)
    \/ LoopTest
    \/ PollTimeout
    \/ PollReady
    \/ PollInterrupted
    \/ ForSkip
    \/ ForFifo
    \/ ForUdp
    \/ UdpReply
    \/ ForTcp
    \/ ForEnd

\* the steps of the worker threads
WorkerNext ==
    \/ \E c \in Conns : HandlerRead(c)
    \/ \E c \in Conns : HandlerReturn(c)
    \/ \E c \in Conns : HandlerFail(c)

\* what the outside does
OutsideNext ==
    \/ \E t \in SrvThreads : SigInt(t)
    \/ \E t \in SrvThreads : SigUsr(t)
    \/ \E s \in ConnScripts : PeerConnects(s)
    \/ PeerAsks
    \/ \E b \in FifoWrites : WriterOpens(b)
    \/ WriterWrites
    \/ WriterCloses

NextServer == MainNext \/ WorkerNext \/ OutsideNext

SpecServer == InitServer /\ [][NextServer]_vars

\* the dispatcher thread keeps being scheduled
SpecServerFair == SpecServer /\ WF_vars(MainNext)

-----------------------------------------------------------------------------
(* Properties of the record parser (SpecParser).                            *)

\* C1: within one MainHandler run, however the bytes read so far were split
\* into read() chunks, the pairs passed to AddEventData (and whether an exception
\* has escaped) are those of a single read() returning the same bytes at once.
C1_ChunkBoundaryInvariance ==
    \A single \in {ProcessChunk(ParserInit, SubSeq(stream, 1, pos))} :
    /\ emitted = single.out
    /\ (status \in {"running", "returned"}) <=> (single.exc = "none")

\* a run that ended normally after at least one read() stopped inside a delay
\* field, with two or more pairs emitted
C1_Witness == splitInDelay /\ status = "returned" /\ Len(emitted) >= 2

\* C3: a delay field ending with no digit buffered does not stop the handler: no
\* exception escapes MainHandler, and the stream well-formed, empty-delay,
\* well-formed is read to its end with exactly two pairs emitted.
C3_MalformedRecordRecovery ==
    /\ status # "invalid_argument"
    /\ (stream = RecA42 \o RecEmptyDelay \o RecA42 /\ pos = Len(stream))
          => Len(emitted) = 2

\* the inputs of C10
EventInputs == {<<"a">>, <<"b", "]">>}
FillerInputs == {EmptyFillers, MixedFillers}
TerminatorInputs == {NL, "]"}
FittingDigitInputs == {<<"7">>, <<"0", "4", "2">>, IntMaxDigits}

\* the decimal value of a digit string
RECURSIVE Decimal(_)
Decimal(s) ==
    IF s = <<>> THEN 0
    ELSE Decimal(SubSeq(s, 1, Len(s) - 1)) * 10 + DigitValue(s[Len(s)])

\* the well-formed records over these inputs, each with its event and digits
WellFormed(digitStrings) ==
    {[event |-> ev, digits |-> dg, bytes |-> RecordBytes(ev, fl, dg, term)] :
        ev \in EventInputs, fl \in FillerInputs, dg \in digitStrings,
        term \in TerminatorInputs}

FittingRecords == WellFormed(FittingDigitInputs)
OverflowingRecords == WellFormed({IntMaxPlus1Digits})

\* from the locals p, the record w yields exactly the pair (event, value of the
\* digits), consumes its terminator and leaves the parser in section 0
ExtractsRecord(p, w) ==
    \A r \in {ProcessChunk(p, w.bytes)} :
    /\ r.exc = "none"
    /\ r.p.section = 0
    /\ Len(r.out) = 1
    /\ r.out[1].event = w.event
    /\ r.out[1].delay = Decimal(w.digits)

\* whatever section-0 state the run is in, each of the records would be extracted
ExtractsAll(records) ==
    (status = "running" /\ parser.section = 0) =>
        \A w \in records : ExtractsRecord(parser, w)

\* the run has read a stream whose last bytes, from index i + 1 on, are the
\* record w, begun in section 0: exactly the pair of w was added, the parser is
\* back in section 0 and no exception escaped
ExtractedLast(w, i) ==
    (i >= 0 /\ SubSeq(stream, i + 1, Len(stream)) = w.bytes) =>
        \A before \in {ProcessChunk(ParserInit, SubSeq(stream, 1, i))} :
            (before.exc = "none" /\ before.p.section = 0) =>
                /\ status \in {"running", "returned"}
                /\ parser.section = 0
                /\ emitted = Append(before.out,
                                    [event |-> w.event, delay |-> Decimal(w.digits)])

ExtractedAll(records) ==
    pos = Len(stream) =>
        \A w \in records : ExtractedLast(w, Len(stream) - Len(w.bytes))

\* C10 (as stated): a well-formed record with one or more digits, begun in
\* section 0, yields exactly one pair (event name, decimal value of the digits),
\* its terminating byte is consumed and the parser is back in section 0.
C10_WellFormedExtraction_AsStated ==
    ExtractedAll(FittingRecords \cup OverflowingRecords)

\* C10 (amended): the same, for digits whose decimal value is at most
\* 2,147,483,647 (the largest value std::stoi returns): for the records the run
\* has read, and for every such record from every section-0 state of the run.
C10_WellFormedExtraction ==
    ExtractedAll(FittingRecords) /\ ExtractsAll(FittingRecords)

\* two well-formed records read one after the other from section 0, both emitted
C10_Witness ==
    /\ stream = RecBMax \o RecA42
    /\ status = "returned"
    /\ parser.section = 0
    /\ emitted = <<[event |-> <<"b", "]">>, delay |-> IntMax],
                   [event |-> <<"a">>, delay |-> 42]>>

\* C14: from section 1 (the byte before was the closing bracket), a byte that is
\* not a tab puts the parser in section 0 whatever it is, a closing bracket
\* included, and a tab puts it in section 2 with the event buffer empty; no pair
\* is emitted either way.
C14_FieldSeparatorCheck ==
    (pos >= 1 /\ status \in {"running", "returned"}) =>
        \A before \in {ProcessChunk(ParserInit, SubSeq(stream, 1, pos - 1))} :
            (before.exc = "none" /\ before.p.section = 1) =>
                /\ emitted = before.out
                /\ IF stream[pos] = TAB
                   THEN parser.section = 2 /\ parser.event = <<>>
                   ELSE parser.section = 0

\* the bytes ']' ']' were read one at a time and the parser is in section 0
C14_Witness ==
    /\ pos = 2
    /\ Len(stream) >= 3
    /\ stream[1] = "]"
    /\ stream[2] = "]"
    /\ status = "running"
    /\ parser.section = 0

-----------------------------------------------------------------------------
(* Properties of one EventStatistic (SpecStat).                             *)

\* the scan C4 describes: over the non-empty buckets in ascending order, with n
\* the count of the buckets already passed and D the total count, the output
\* becomes the bucket's delay exactly when n / D < 0.5, and n grows either way
RECURSIVE ScanHalf(_, _, _, _, _)
ScanHalf(h, D, n, out, todo) ==
    IF todo = {} THEN out
    ELSE ScanHalf(h, D, n + h[SetMin(todo)],
                  IF 2 * n < D THEN SetMin(todo) ELSE out,
                  todo \ {SetMin(todo)})

\* C4: after Calc the median is the value of that scan (so nine delays of 10 and
\* one of 130 give 10).
C4_MedianBySegmentScan ==
    lastOp = "Calc" =>
        es.median = ScanHalf(es.histogram, es.total_counter, 0, 0, DOMAIN es.histogram)

\* the fields AddData writes
Counters(e) ==
    [histogram |-> e.histogram, total_counter |-> e.total_counter,
     minimum |-> e.minimum, maximum |-> e.maximum,
     below_122us_counter |-> e.below_122us_counter,
     below_140us_counter |-> e.below_140us_counter,
     below_145us_counter |-> e.below_145us_counter]

\* AddData applied to each delay of ds modulo 1,000,000, from a fresh object
RECURSIVE ReplayReduced(_)
ReplayReduced(ds) ==
    IF ds = <<>> THEN Reset
    ELSE AddData(ReplayReduced(SubSeq(ds, 1, Len(ds) - 1)), ds[Len(ds)] % 1000000)

\* C6: in every state of the object, AddData(d) and AddData(d mod 1,000,000) give
\* the same state, and the counters are those that recording the reduced delays
\* gives.
C6_DelayWraparound ==
    /\ \A d \in DelayInputs : AddData(es, d) = AddData(es, d % 1000000)
    /\ Counters(es) = Counters(ReplayReduced(added))

\* 1,000,042 recorded twice, counted in bucket 42
C6_Witness ==
    /\ added = <<1000042, 1000042>>
    /\ Bucket(es.histogram, 42) = 2
    /\ lastOp = "AddData"

\* the delays of ds modulo 1,000,000
ReducedSet(ds) == {ds[i] % 1000000 : i \in 1..Len(ds)}

\* C7: with nothing recorded the reported min is 0; after AddData calls whose
\* reduced delays are all non-zero it is the smallest of them, in any order.
C7_ReportedMinimum ==
    /\ added = <<>> => GetReport(es).min = 0
    /\ (added # <<>> /\ 0 \notin ReducedSet(added))
          => GetReport(es).min = SetMin(ReducedSet(added))
    /\ lastOp = "GetReport" => report.min = GetReport(es).min

\* 300 then 50 recorded, and 50 reported
C7_Witness == added = <<300, 50>> /\ lastOp = "GetReport" /\ report.min = 50

\* the summary values Calc writes
Cached(r) == [p50 |-> r.p50, p90 |-> r.p90, p99 |-> r.p99, p999 |-> r.p999]

\* C15 (as stated): AddData leaves the five summary values (min, median and the
\* three percentiles) unchanged, and a summary formatted with no Calc since the
\* summary before it equals that summary.
C15_CachedSummary_AsStated ==
    [][/\ lastOp' = "AddData" => GetReport(es') = GetReport(es)
       /\ (lastOp' = "GetReport" /\ sinceReport' # "Calc") => report' = report]_vars

\* C15 (amended): the same for the median and the three percentiles; min is the
\* running minimum, which AddData updates.
C15_CachedSummary ==
    [][/\ lastOp' = "AddData" => Cached(GetReport(es')) = Cached(GetReport(es))
       /\ (lastOp' = "GetReport" /\ sinceReport' # "Calc")
             => Cached(report') = Cached(report)]_vars

\* two summaries with AddData and no Calc between them, showing a median that a
\* Calc would have changed
C15_Witness ==
    /\ lastOp = "GetReport"
    /\ sinceReport = "AddData"
    /\ report.p50 # 0
    /\ GetReport(Calc(es)).p50 # report.p50

\* the recorded delays (modulo 1,000,000) below bound
RecordedBelow(bound) ==
    Cardinality({k \in 1..Len(added) : added[k] % 1000000 < bound})

\* C16: every row GetFullReport prints carries, as its cumulative value, the
\* number of recorded samples strictly below the row's lower bound (over the
\* total count), and every recorded sample's 5-microsecond bin has a row.
C16_DistributionRows ==
    lastOp = "GetFullReport" =>
        /\ \A i \in 1..Len(fullReport.rows) :
              /\ fullReport.rows[i].below = RecordedBelow(fullReport.rows[i].exec_time)
              /\ fullReport.rows[i].total = Len(added)
        /\ \A k \in 1..Len(added) :
              \E i \in 1..Len(fullReport.rows) :
                  fullReport.rows[i].exec_time =
                      (added[k] % 1000000) - ((added[k] % 1000000) % 5)

\* C20: after every sequence of AddData calls min <= max < 1,000,000, and the
\* indices GetFullReport reads, from min rounded down to a multiple of 5 up to
\* max rounded down to a multiple of 5 plus 4, lie in 0..999,999.
C20_FormattingBounds ==
    /\ es.minimum <= es.maximum
    /\ es.maximum < 1000000
    /\ \A f \in {GetFullReport(es)} : 0 <= f.first /\ f.last < 1000000
    /\ lastOp = "GetFullReport" => fullReport = GetFullReport(es)

\* 999,999 was recorded and GetFullReport read the last bucket
C20_Witness ==
    /\ lastOp = "GetFullReport"
    /\ es.maximum = 999999
    /\ fullReport.last = 999999
    /\ Len(fullReport.rows) >= 2

-----------------------------------------------------------------------------
(* Properties of the registry under concurrency (SpecConc).                 *)

\* the sum of the buckets of h whose delay is below bound
BucketSumBelow(h, bound) ==
    SumOver(h, {d \in DOMAIN h : d < bound})

BucketSum(h) == SumOver(h, DOMAIN h)

\* no AddEventData call is in progress
AllReturned == \A t \in Threads : pc[t] \notin AddDataPcs

\* C2: once every AddEventData call has returned, each event's total count and
\* the sum of its buckets are the number N of calls made for it, whatever threads
\* made them and however they interleaved.
C2_NoLostUpdates ==
    AllReturned =>
        \A e \in EventNames :
            /\ calls[e] > 0 => e \in DOMAIN events
            /\ e \in DOMAIN events =>
                  /\ events[e].total_counter = calls[e]
                  /\ BucketSum(events[e].histogram) = calls[e]

\* two calls for "a" that were in progress at the same time have both returned
C2_Witness == AllReturned /\ overlap /\ calls["a"] = 2

Zeros == [min |-> 0, p50 |-> 0, p90 |-> 0, p99 |-> 0, p999 |-> 0]

\* C5: GetEventStatistic for a name no AddEventData call was made for returns
\* all zeros; every name queried is in the registry; and every GetFullStatistic
\* output has an entry for each name queried before it.
C5_ImplicitCreationOnQuery ==
    /\ (lastQuery.event # "" /\ lastQuery.fresh) => lastQuery.report = Zeros
    /\ queried \subseteq DOMAIN events
    /\ lastDump.queriedBefore \subseteq lastDump.names

\* "b", never recorded, was queried; a later dump lists it beside the recorded "a"
C5_Witness ==
    /\ lastQuery.event = "b"
    /\ lastQuery.fresh
    /\ "b" \in lastDump.queriedBefore
    /\ "a" \in lastDump.names
    /\ calls["a"] > 0

\* sum of buckets = total count, and each threshold counter = the sum of the
\* buckets below its threshold
HistogramInvariant(e) ==
    /\ BucketSum(e.histogram) = e.total_counter
    /\ BucketSumBelow(e.histogram, 122) = e.below_122us_counter
    /\ BucketSumBelow(e.histogram, 140) = e.below_140us_counter
    /\ BucketSumBelow(e.histogram, 145) = e.below_145us_counter

\* C8: whenever no registry operation is in progress (the mutex is free), every
\* event satisfies the histogram invariant.
C8_HistogramInvariant ==
    mutex = NoThread => \A e \in DOMAIN events : HistogramInvariant(events[e])

\* "a" holds one delay below 122 and one between 122 and 140, nothing in progress
C8_Witness ==
    /\ mutex = NoThread
    /\ "a" \in DOMAIN events
    /\ events["a"].total_counter = 2
    /\ events["a"].below_122us_counter = 1
    /\ events["a"].below_140us_counter = 2

\* C9: no report, from a UDP query or from a signal's dump, is computed while an
\* AddData is partially applied.
C9_NonTornReports == ~lastQuery.partial /\ ~lastDump.partial

-----------------------------------------------------------------------------
(* Properties of main, its handlers and its workers (SpecServer).           *)

\* what a descriptor's bytes yield when one MainHandler call parses them alone
Alone(bytes) == ProcessChunk(ParserInit, bytes)

\* C11: while main is in the call of MainHandler on the input file there has
\* been no poll, no FIFO read, no accept and no UDP exchange; once poll has been
\* called the file has been read to its end (read() returned 0) and the pairs
\* applied from it are those its bytes yield; and out of that call the file is
\* never read again.
C11_StartupOrdering ==
    /\ [](dpc = "drain" =>
            /\ ~polled
            /\ got[FifoFd] = <<>>
            /\ replies = 0
            /\ \A c \in Conns : conn[c].state \in {"none", "queued"})
    /\ [](polled =>
            /\ file = <<>>
            /\ fileReads > 0
            /\ applied[FileFd] = Alone(got[FileFd]).out)
    /\ [][dpc # "drain" =>
            (fileReads' = fileReads /\ got'[FileFd] = got[FileFd] /\ file' = file)]_vars

\* the file's record was read in two chunks and applied, then poll was called
\* and a connection accepted
C11_Witness ==
    /\ polled
    /\ fileReads = 3
    /\ applied[FileFd] = <<[event |-> <<"a">>, delay |-> 42]>>
    /\ conn[1].state = "accepted"

\* C12: a read() returning -1 ends only the handling of its descriptor: the
\* process does not end over it, and a TCP worker has closed its connection
\* having applied only the pairs that the bytes it read yield.
C12_ReadErrorIsolation ==
    \A fd \in failed :
        /\ down.fd # fd
        /\ fd \in ConnFds =>
              (fd \notin open /\ applied[fd] = Alone(got[fd]).out)

\* C13: once isWorking is false no poll is begun; a for loop that ends has run
\* the branch of every descriptor poll reported readable; the step that clears
\* isWorking changes no connection, no handler and not main's position; and
\* the process leaves the loop eventually.
C13_Shutdown ==
    /\ [][~isWorking => (dpc' = "poll" => dpc = "poll")]_vars
    /\ [](dpc = "while" =>
            handled = {fd \in DOMAIN revents : revents[fd] = "POLLIN"})
    /\ [][(isWorking /\ ~isWorking') =>
            /\ dpc' = dpc /\ fdi' = fdi /\ revents' = revents
            /\ conn' = conn /\ hp' = hp /\ open' = open
            /\ dgrams' = dgrams /\ replies' = replies /\ down' = down]_vars
    /\ (~isWorking ~> down # Up)

\* SIGINT arrived during a readiness round that accepted a connection; the
\* round was finished, main left the loop, and the worker had not been stopped
C13_Witness ==
    /\ ~isWorking
    /\ down = Ended("return", NoFd)
    /\ TcpFd \in handled
    /\ conn[1].state = "accepted"

\* C17: after a dump signal, with no shutdown requested and no parse or read
\* failure, the process is running and the FIFO, the TCP listener and the UDP
\* socket are open.
C17_DumpLeavesServerRunning ==
    (dumps > 0 /\ isWorking /\ what # WhatStoi
        /\ down.how \notin {"terminate", "SIGSEGV"})
      => (down = Up /\ {FifoFd, TcpFd, UdpFd} \subseteq open)

\* C18: at every moment, in every interleaving of the workers' reads, the pairs
\* applied from a connection are those that the bytes read from it yield when
\* parsed alone, and a connection is closed only when its stream is read to the
\* end (connections whose read() failed aside).
C18_ParserStatePerConnection ==
    \A c \in Conns :
        ConnFd(c) \notin failed =>
            /\ applied[ConnFd(c)] = Alone(got[ConnFd(c)]).out
            /\ conn[c].state = "closed" => conn[c].input = <<>>

\* two workers read their records in pieces, one inside a record while the
\* other read, and each applied its own pair
C18_Witness ==
    /\ interleaved
    /\ conn[1].state = "closed"
    /\ conn[2].state = "closed"
    /\ applied[ConnFd(1)] = <<[event |-> <<"a">>, delay |-> 42]>>
    /\ applied[ConnFd(2)] = <<[event |-> <<"b">>, delay |-> 77]>>

\* C19: whenever no MainHandler call is running on the FIFO (and none failed on
\* it), the pairs applied from the FIFO are those that all the bytes read from
\* it yield when one call parses them, however many calls read them.
C19_FifoAcrossRounds ==
    (dpc # "fifo" /\ FifoFd \notin failed /\ down.fd # FifoFd) =>
        applied[FifoFd] = Alone(got[FifoFd]).out

=============================================================================
